---- MODULE Spec2Model ----
(***************************************************************************)
(* State-machine model of ReusableVec<T> (src/src/lib.rs): a Vec<T> plus a *)
(* logical length `len`.  Source indices are 0-based and are kept 0-based  *)
(* here; the helpers Index/IndexSet/RangeTo translate to TLA+ sequences.   *)
(***************************************************************************)
EXTENDS Integers, Sequences, FiniteSets, TLC

\* ---- bounds -------------------------------------------------------------
\* Largest value of the `len` counter (usize::MAX, scaled down).
USIZE_MAX == 3
\* Element values are 1..MaxValue.
MaxValue == 2

Values == 1..MaxValue
\* Option::None, and the "never written" mark of the history variable.
None == 0 - 1
\* Result of slicing out of range (the slice expression panics).
OutOfRange == << 0 >>

VARIABLES
    vec,        \* self.vec : [buf : Seq(Values), cap : Nat]
    len,        \* self.len
    pc,         \* "live" | "consumed" (moved out by into_vec) | "panicked"
    out,        \* the Vec returned by into_vec, None while the container lives
    ret,        \* Some(index of the slot borrowed from push_reuse) or None
    dropped,    \* elements whose destructor ran in the last operation
    op,         \* history: name of the last operation
    written,    \* history: value most recently written at each index
    appended,   \* history: the last write by push or through a push_reuse reference
    chain,      \* history: clear_reuse followed only by push_reuse calls
    sinceDrop,  \* history: clear_drop happened and no push since
    prev,       \* history: name of the operation before the last
    hwm,        \* history: largest len since construction or the last clear_drop
    shadow,     \* history: an ordinary growable array given the same calls
    iter        \* loop index `i` of tests::it_should_work (0 outside the test)

vars == << vec, len, pc, out, ret, dropped, op, written, appended, chain, sinceDrop, prev, hwm, shadow, iter >>

\* ---- Vec<T> as used by the container --------------------------------------
Vec_new == [buf |-> << >>, cap |-> 0]
Vec_with_capacity(capacity) == [buf |-> << >>, cap |-> capacity]
Vec_len(v) == Len(v.buf)
\* v[i] with 0-based i
Index(v, i) == v.buf[i + 1]
\* v[i] = x with 0-based i
IndexSet(v, i, x) == [v EXCEPT !.buf[i + 1] = x]
\* index i is inside v
InBounds(v, i) == i >= 0 /\ i < Vec_len(v)
\* &v[..n]
RangeTo(v, n) == IF n <= Vec_len(v) THEN SubSeq(v.buf, 1, n) ELSE OutOfRange
\* capacities Vec::push may end with: unchanged when there is room, else any
\* capacity that holds the new element
GrowCaps(v) ==
    IF Vec_len(v) < v.cap THEN {v.cap} ELSE (Vec_len(v) + 1)..USIZE_MAX
Vec_push(v, x, c) == [buf |-> Append(v.buf, x), cap |-> c]
Vec_truncate(v, n) ==
    IF n < Vec_len(v) THEN [v EXCEPT !.buf = SubSeq(v.buf, 1, n)] ELSE v
\* elements dropped by truncate(n), in order
TruncateDrops(v, n) ==
    IF n < Vec_len(v) THEN SubSeq(v.buf, n + 1, Vec_len(v)) ELSE << >>
Vec_clear(v) == [v EXCEPT !.buf = << >>]

\* every Vec<T> a caller can hand to From<Vec<T>>
InputVecs ==
    { v \in [buf : UNION { [1..n -> Values] : n \in 0..USIZE_MAX }, cap : 0..USIZE_MAX] :
        Len(v.buf) <= v.cap }

\* ---- views ----------------------------------------------------------------
\* mutant: the view runs to the physical length
as_slice_whole_vec == RangeTo(vec, Vec_len(vec))
as_slice == RangeTo(vec, len)
\* mutant: the mutable view takes the inclusive range ..=len
as_mut_slice_inclusive == RangeTo(vec, len + 1)
as_mut_slice == RangeTo(vec, len)

\* ---- constructors -----------------------------------------------------------
new == [vec |-> Vec_new, len |-> 0]
with_capacity(capacity) == [vec |-> Vec_with_capacity(capacity), len |-> 0]
\* mutant: the converted array starts with no live element
from_len_zero(v) == [len |-> 0, vec |-> v]
from(v) == [len |-> Vec_len(v), vec |-> v]

\* ---- methods: their effect on the container, the result and the drops -------
\* mutant: the returned slot is one past the new last index
push_reuse_off_by_one ==
    /\ IF len < Vec_len(vec)
       THEN /\ len' = len + 1
            /\ ret' = len'
            /\ pc' = pc
       ELSE len' = len /\ ret' = None /\ pc' = pc
    /\ dropped' = << >>
    /\ UNCHANGED << vec, out >>

\* mutant: the guard lets the counter reach past the physical length
push_reuse_le ==
    /\ IF len <= Vec_len(vec)
       THEN /\ len' = len + 1
            /\ IF InBounds(vec, len' - 1)
               THEN ret' = len' - 1 /\ pc' = pc
               ELSE ret' = None /\ pc' = "panicked"
       ELSE len' = len /\ ret' = None /\ pc' = pc
    /\ dropped' = << >>
    /\ UNCHANGED << vec, out >>

\* mutant: the reused slot is reset to a default value
push_reuse_resets_slot ==
    /\ IF len < Vec_len(vec)
       THEN /\ len' = len + 1
            /\ ret' = len' - 1
            /\ pc' = pc
            /\ vec' = IndexSet(vec, len' - 1, 1)
       ELSE len' = len /\ ret' = None /\ pc' = pc /\ vec' = vec
    /\ dropped' = << >>
    /\ out' = out

\* mutant: reserved capacity is taken for a reservoir
push_reuse_by_capacity ==
    /\ IF len < vec.cap
       THEN /\ len' = len + 1
            /\ IF InBounds(vec, len' - 1)
               THEN ret' = len' - 1 /\ pc' = pc
               ELSE ret' = None /\ pc' = "panicked"
       ELSE len' = len /\ ret' = None /\ pc' = pc
    /\ dropped' = << >>
    /\ UNCHANGED << vec, out >>

push_reuse ==
    /\ IF len < Vec_len(vec)
       THEN /\ len' = len + 1
            /\ IF InBounds(vec, len' - 1)
               THEN ret' = len' - 1 /\ pc' = pc
               ELSE ret' = None /\ pc' = "panicked"
       ELSE len' = len /\ ret' = None /\ pc' = pc
    /\ dropped' = << >>
    /\ UNCHANGED << vec, out >>

\* mutant: the value is always physically appended, the reservoir ignored
push_always_appends(value) ==
    /\ ret' = None
    /\ out' = out
    /\ IF len = USIZE_MAX \/ Vec_len(vec) = USIZE_MAX
       THEN /\ pc' = "panicked"
            /\ dropped' = << >>
            /\ UNCHANGED << vec, len >>
       ELSE /\ len' = len + 1
            /\ \E c \in GrowCaps(vec) : vec' = Vec_push(vec, value, c)
            /\ dropped' = << >>
            /\ pc' = pc

\* mutant: the counter is incremented with wrapping arithmetic
push_wrapping(value) ==
    /\ ret' = None
    /\ out' = out
    /\ len' = (len + 1) % (USIZE_MAX + 1)
    /\ IF len' <= Vec_len(vec)
       THEN IF InBounds(vec, len' - 1)
            THEN /\ vec' = IndexSet(vec, len' - 1, value)
                 /\ dropped' = << Index(vec, len' - 1) >>
                 /\ pc' = pc
            ELSE /\ vec' = vec
                 /\ dropped' = << >>
                 /\ pc' = "panicked"
       ELSE /\ \E c \in GrowCaps(vec) : vec' = Vec_push(vec, value, c)
            /\ dropped' = << >>
            /\ pc' = pc

\* mutant: the last reservoir slot is not reused, the value is appended
push_lt(value) ==
    /\ ret' = None
    /\ out' = out
    /\ IF len = USIZE_MAX
       THEN /\ pc' = "panicked"
            /\ dropped' = << >>
            /\ UNCHANGED << vec, len >>
       ELSE /\ len' = len + 1
            /\ IF len' < Vec_len(vec)
               THEN /\ vec' = IndexSet(vec, len' - 1, value)
                    /\ dropped' = << Index(vec, len' - 1) >>
                    /\ pc' = pc
               ELSE /\ \E c \in GrowCaps(vec) : vec' = Vec_push(vec, value, c)
                    /\ dropped' = << >>
                    /\ pc' = pc

push(value) ==
    /\ ret' = None
    /\ out' = out
    /\ IF len = USIZE_MAX
       THEN \* checked_add(1) is None: unwrap panics before the assignment
            /\ pc' = "panicked"
            /\ dropped' = << >>
            /\ UNCHANGED << vec, len >>
       ELSE /\ len' = len + 1
            /\ IF len' <= Vec_len(vec)
               THEN IF InBounds(vec, len' - 1)
                    THEN /\ vec' = IndexSet(vec, len' - 1, value)
                         /\ dropped' = << Index(vec, len' - 1) >>
                         /\ pc' = pc
                    ELSE /\ vec' = vec
                         /\ dropped' = << >>
                         /\ pc' = "panicked"
               ELSE /\ \E c \in GrowCaps(vec) : vec' = Vec_push(vec, value, c)
                    /\ dropped' = << >>
                    /\ pc' = pc

\* mutant: the backing array is returned without truncation
into_vec_no_truncate ==
    /\ out' = vec
    /\ dropped' = << >>
    /\ pc' = "consumed"
    /\ vec' = Vec_new
    /\ len' = 0
    /\ ret' = None

into_vec ==
    /\ out' = Vec_truncate(vec, len)
    /\ dropped' = TruncateDrops(vec, len)
    /\ pc' = "consumed"
    /\ vec' = Vec_new
    /\ len' = 0
    /\ ret' = None

\* mutant: clearing for reuse drops the elements
clear_reuse_drops ==
    /\ vec' = Vec_clear(vec)
    /\ len' = 0
    /\ dropped' = vec.buf
    /\ ret' = None
    /\ UNCHANGED << pc, out >>

\* mutant: clearing flips between empty and everything live
clear_reuse_toggles ==
    /\ len' = IF len = 0 THEN Vec_len(vec) ELSE 0
    /\ dropped' = << >>
    /\ ret' = None
    /\ UNCHANGED << vec, pc, out >>

\* IntoIterator for ReusableVec<T>: the items are those of into_vec()
into_iter == into_vec

\* IntoIterator for &ReusableVec<T> and &mut ReusableVec<T>: the items in order
into_iter_ref == as_slice
into_iter_mut == as_mut_slice

clear_reuse ==
    /\ len' = 0
    /\ dropped' = << >>
    /\ ret' = None
    /\ UNCHANGED << vec, pc, out >>

\* mutant: the logical length survives the physical clear
clear_drop_keeps_len ==
    /\ vec' = Vec_clear(vec)
    /\ dropped' = vec.buf
    /\ len' = len
    /\ ret' = None
    /\ UNCHANGED << pc, out >>

\* mutant: only the logical length is reset
clear_drop_keeps_vec ==
    /\ vec' = vec
    /\ dropped' = << >>
    /\ len' = 0
    /\ ret' = None
    /\ UNCHANGED << pc, out >>

clear_drop ==
    /\ vec' = Vec_clear(vec)
    /\ dropped' = vec.buf
    /\ len' = 0
    /\ ret' = None
    /\ UNCHANGED << pc, out >>

\* `*slot = value` through the reference push_reuse returned
write_reused(value) ==
    /\ vec' = IndexSet(vec, ret, value)
    /\ dropped' = << Index(vec, ret) >>
    /\ UNCHANGED << len, pc, out, ret >>

\* `self[i] = value` through as_mut_slice / deref_mut
slice_write(i, value) ==
    /\ ret' = None
    /\ IF as_mut_slice = OutOfRange
       THEN pc' = "panicked" /\ dropped' = << >> /\ UNCHANGED << vec, len, out >>
       ELSE /\ vec' = IndexSet(vec, i, value)
            /\ dropped' = << Index(vec, i) >>
            /\ UNCHANGED << len, pc, out >>

\* ---- history ------------------------------------------------------------------
NeverWritten == [i \in 0..(USIZE_MAX - 1) |-> None]
WrittenBy(v) ==
    [i \in 0..(USIZE_MAX - 1) |-> IF i < Vec_len(v) THEN Index(v, i) ELSE None]
NoChain == [n |-> None, snap |-> << >>]
NoWrite == [idx |-> None, val |-> None]
\* the reference array is not followed through calls it has no counterpart of
Untracked == << 0 >>
Called(name, arg) ==
    /\ shadow' = CASE name = "push" ->
                       IF pc' = "panicked" \/ shadow = Untracked
                       THEN shadow ELSE Append(shadow, arg)
                  [] name \in {"clear_reuse", "clear_drop"} -> << >>
                  [] name \in {"into_vec", "into_iter"} -> shadow
                  [] name = "from" -> arg.buf
                  [] OTHER -> Untracked
    /\ op' = [name |-> name, arg |-> arg]
    /\ prev' = op.name
    /\ hwm' = IF name \in {"clear_drop", "into_vec", "into_iter", "from"} \/ len' > hwm
              THEN len' ELSE hwm

\* ---- the calls a program can make ----------------------------------------------
Init ==
    /\ \E c \in [name : {"new"}, arg : {None}]
              \cup [name : {"with_capacity"}, arg : 0..USIZE_MAX]
              \cup [name : {"from"}, arg : InputVecs] :
         LET s == CASE c.name = "new" -> new
                    [] c.name = "with_capacity" -> with_capacity(c.arg)
                    [] c.name = "from" -> from(c.arg)
         IN  /\ vec = s.vec
             /\ len = s.len
             /\ op = c
             /\ written = WrittenBy(s.vec)
             /\ shadow = IF c.name = "from" THEN c.arg.buf ELSE << >>
    /\ appended = NoWrite
    /\ pc = "live"
    /\ out = None
    /\ ret = None
    /\ dropped = << >>
    /\ chain = NoChain
    /\ sinceDrop = FALSE
    /\ prev = "none"
    /\ hwm = len
    /\ iter = 0

PushReuseCall ==
    /\ pc = "live"
    /\ push_reuse
    /\ Called("push_reuse", None)
    /\ chain' = IF chain.n # None /\ chain.n <= Len(chain.snap)
                THEN [chain EXCEPT !.n = chain.n + 1] ELSE NoChain
    /\ UNCHANGED << written, appended, sinceDrop >>

PushCall ==
    /\ pc = "live"
    /\ \E value \in Values :
         /\ push(value)
         /\ Called("push", value)
         /\ written' = IF len = USIZE_MAX THEN written
                       ELSE [written EXCEPT ![len] = value]
         /\ appended' = IF len = USIZE_MAX THEN appended
                        ELSE [idx |-> len, val |-> value]
    /\ chain' = NoChain
    /\ sinceDrop' = IF len = USIZE_MAX THEN sinceDrop ELSE FALSE

IntoVecCall ==
    /\ pc = "live"
    /\ into_vec
    /\ Called("into_vec", None)
    /\ written' = NeverWritten
    /\ appended' = NoWrite
    /\ chain' = NoChain
    /\ sinceDrop' = FALSE

\* `for x in things`: consumes the container, `out` holds the items yielded
IntoIterCall ==
    /\ pc = "live"
    /\ into_iter
    /\ Called("into_iter", None)
    /\ written' = NeverWritten
    /\ appended' = NoWrite
    /\ chain' = NoChain
    /\ sinceDrop' = FALSE

ClearReuseCall ==
    /\ pc = "live"
    /\ clear_reuse
    /\ Called("clear_reuse", None)
    /\ chain' = [n |-> 0, snap |-> vec.buf]
    /\ UNCHANGED << written, appended, sinceDrop >>

ClearDropCall ==
    /\ pc = "live"
    /\ clear_drop
    /\ Called("clear_drop", None)
    /\ chain' = NoChain
    /\ sinceDrop' = TRUE
    /\ written' = NeverWritten
    /\ appended' = NoWrite

WriteReusedCall ==
    /\ pc = "live"
    /\ ret # None
    /\ \E value \in Values :
         /\ write_reused(value)
         /\ Called("write_reused", value)
         /\ written' = [written EXCEPT ![ret] = value]
         /\ appended' = [idx |-> ret, val |-> value]
    /\ UNCHANGED << chain, sinceDrop >>

SliceWriteCall ==
    /\ pc = "live"
    /\ \E i \in 0..(len - 1), value \in Values :
         /\ slice_write(i, value)
         /\ Called("slice_write", << i, value >>)
         /\ written' = IF as_mut_slice = OutOfRange THEN written
                       ELSE [written EXCEPT ![i] = value]
    /\ chain' = NoChain
    /\ UNCHANGED << appended, sinceDrop >>

\* Vec -> ReusableVec of the array into_vec returned
FromVecCall ==
    /\ pc = "consumed"
    /\ op.name = "into_vec"
    /\ LET s == from(out)
       IN  vec' = s.vec /\ len' = s.len /\ written' = WrittenBy(s.vec)
    /\ appended' = NoWrite
    /\ Called("from", out)
    /\ pc' = "live"
    /\ out' = None
    /\ ret' = None
    /\ dropped' = << >>
    /\ chain' = NoChain
    /\ sinceDrop' = FALSE

\* the same calls made by a program that is not the test loop below
PushReuse == PushReuseCall /\ UNCHANGED iter
Push == PushCall /\ UNCHANGED iter
IntoVec == IntoVecCall /\ UNCHANGED iter
IntoIter == IntoIterCall /\ UNCHANGED iter
ClearReuse == ClearReuseCall /\ UNCHANGED iter
ClearDrop == ClearDropCall /\ UNCHANGED iter
WriteReused == WriteReusedCall /\ UNCHANGED iter
SliceWrite == SliceWriteCall /\ UNCHANGED iter
FromVec == FromVecCall /\ UNCHANGED iter

Next ==
    \/ PushReuse
    \/ Push
    \/ IntoVec
    \/ IntoIter
    \/ ClearReuse
    \/ ClearDrop
    \/ WriteReused
    \/ SliceWrite
    \/ FromVec

Spec == Init /\ [][Next]_vars

\* ---- programs that never call push_reuse ---------------------------------------
NextNoReuse ==
    \/ Push
    \/ ClearReuse
    \/ ClearDrop
    \/ IntoVec

SpecNoReuse == Init /\ [][NextNoReuse]_vars

\* ---- the reuse loop of tests::it_should_work ---------------------------------
\* iterations the loop is run for
MaxIter == 12
\* Thing { cheap: 123, expensive: [] } and Thing { cheap: 123, expensive: [456] }
Empty == 1
Filled == 2

\* let mut things = ReusableVec::<Thing>::new();
InitTest == Init /\ op.name = "new"

\* if let Some(reused) = things.push_reuse()
T_PushReuse ==
    /\ op.name \in {"new", "clear_reuse"}
    /\ iter < MaxIter
    /\ PushReuseCall
    /\ iter' = iter

\* Some(reused): the assertion on the old content (it stops the test when it
\* fails), then *reused = Thing { expensive, ..new_thing } with expensive cleared
T_Reused ==
    /\ op.name = "push_reuse"
    /\ ret # None
    /\ iter > 0 => Index(vec, ret) = Filled
    /\ WriteReusedCall
    /\ op'.arg = Empty
    /\ iter' = iter

\* None: things.push(Thing { expensive: Vec::with_capacity(100), ..new_thing })
T_Push ==
    /\ op.name = "push_reuse"
    /\ ret = None
    /\ PushCall
    /\ op'.arg = Empty
    /\ iter' = iter

\* assert_eq!(things.len(), 1); things.last_mut().unwrap().expensive.push(456)
T_LastMut ==
    /\ op.name \in {"push", "write_reused"}
    /\ Len(as_slice) = 1
    /\ SliceWriteCall
    /\ op'.arg = << len - 1, Filled >>
    /\ iter' = iter

\* things.clear_reuse(); assert_eq!(things.len(), 0); next iteration
T_ClearReuse ==
    /\ op.name = "slice_write"
    /\ ClearReuseCall
    /\ iter' = iter + 1

NextTest ==
    \/ T_PushReuse
    \/ T_Reused
    \/ T_Push
    \/ T_LastMut
    \/ T_ClearReuse

SpecTest == InitTest /\ [][NextTest]_vars

TypeOK ==
    /\ vec \in [buf : UNION { [1..n -> Values] : n \in 0..USIZE_MAX }, cap : 0..USIZE_MAX]
    /\ len \in 0..USIZE_MAX
    /\ pc \in {"live", "consumed", "panicked"}

\* ---- claims -------------------------------------------------------------------

\* C1: after every call (constructors included) the logical length is at most
\* the number of elements physically present in the backing array.
C1_LenWithinBacking == len <= Vec_len(vec)
C1_Witness ==
    /\ pc = "live"
    /\ op.name = "push_reuse"
    /\ 0 < len
    /\ len < Vec_len(vec)

\* C2: both views hold exactly `len` elements, and element i of a view is the
\* value most recently written at index i by push, through the push_reuse
\* reference, through the mutable view, or by the conversion from an array;
\* nothing at an index >= len shows.
C2_ViewCorrectness ==
    pc = "live" =>
        /\ as_slice # OutOfRange
        /\ as_mut_slice # OutOfRange
        /\ Len(as_slice) = len
        /\ Len(as_mut_slice) = len
        /\ \A i \in 0..(len - 1) :
             as_slice[i + 1] = written[i] /\ as_mut_slice[i + 1] = written[i]
C2_Witness ==
    /\ pc = "live"
    /\ op.name = "slice_write"
    /\ len >= 2
    /\ len < Vec_len(vec)
    /\ Index(vec, len) # Index(vec, len - 1)
    /\ appended.idx # None
    /\ appended.idx < len
    /\ appended.val # written[appended.idx]
\* C2 as stated, at the index that push or a push_reuse reference wrote last:
\* while that index is live, the views show the value written then.
C2_AsStated ==
    pc = "live" =>
        /\ Len(as_slice) = len
        /\ Len(as_mut_slice) = len
        /\ (appended.idx # None /\ appended.idx < len) =>
               /\ as_slice[appended.idx + 1] = appended.val
               /\ as_mut_slice[appended.idx + 1] = appended.val

\* C3: push_reuse with len < vec.len() adds exactly one to len and returns the
\* slot at the new index len - 1 holding what it held before; the backing
\* array (length, capacity, every slot) is unchanged and nothing is dropped.
C3_ReuseSuccess ==
    [][ (pc = "live" /\ op'.name = "push_reuse" /\ len < Vec_len(vec)) =>
            /\ pc' = "live"
            /\ len' = len + 1
            /\ ret' = len' - 1
            /\ Index(vec', ret') = Index(vec, len)
            /\ vec' = vec
            /\ dropped' = << >> ]_vars
C3_Witness ==
    /\ pc = "live"
    /\ op.name = "push_reuse"
    /\ ret # None
    /\ ret >= 1
    /\ ret = len - 1

\* C4: push_reuse with len = vec.len() returns None without panicking and
\* changes neither length nor any element.
C4_ReuseNoSlot ==
    [][ (pc = "live" /\ op'.name = "push_reuse" /\ len = Vec_len(vec)) =>
            /\ pc' = "live"
            /\ ret' = None
            /\ len' = len
            /\ vec' = vec
            /\ dropped' = << >> ]_vars
C4_Witness ==
    /\ pc = "live"
    /\ op.name = "push_reuse"
    /\ ret = None
    /\ len = Vec_len(vec)
    /\ len >= 1

\* C5: below counter overflow, push(value) adds exactly one to len and the
\* view afterwards is the view before with value appended.
C5_PushAppends ==
    [][ (pc = "live" /\ op'.name = "push" /\ len < USIZE_MAX) =>
            /\ pc' = "live"
            /\ len' = len + 1
            /\ as_slice' = Append(as_slice, op'.arg) ]_vars
C5_Witness ==
    /\ pc = "live"
    /\ op.name = "push"
    /\ len >= 2
    /\ len < Vec_len(vec)
    /\ dropped # << >>
    /\ dropped[1] # op.arg

\* C6: clear_reuse sets len to 0, leaves the backing array as it was (length,
\* every slot) and drops no element.
C6_ClearReuseFrame ==
    [][ (pc = "live" /\ op'.name = "clear_reuse") =>
            /\ pc' = "live"
            /\ len' = 0
            /\ vec' = vec
            /\ dropped' = << >> ]_vars
C6_Witness ==
    /\ pc = "live"
    /\ op.name = "clear_reuse"
    /\ prev \in {"push", "write_reused", "slice_write"}
    /\ len = 0
    /\ Vec_len(vec) >= 2

\* C7: after clear_reuse with m physical elements, the i-th of the following
\* push_reuse calls (i <= m, only writes through the returned references in
\* between) returns slot i - 1 with the content it had before the clear, and
\* the (m + 1)-th returns None.
C7_ReuseDoesNotClear ==
    (pc = "live" /\ op.name = "push_reuse" /\ chain.n # None /\ chain.n >= 1) =>
        IF chain.n <= Len(chain.snap)
        THEN /\ ret = chain.n - 1
             /\ len = chain.n
             /\ Vec_len(vec) = Len(chain.snap)
             /\ Index(vec, ret) = chain.snap[chain.n]
        ELSE /\ ret = None
             /\ len = Len(chain.snap)
C7_Witness ==
    /\ pc = "live"
    /\ op.name = "push_reuse"
    /\ chain.n = Len(chain.snap)
    /\ chain.n >= 2
    /\ ret = chain.n - 1
    /\ chain.snap[1] # chain.snap[2]
    /\ Index(vec, 0) # chain.snap[1]

\* C8: clear_drop empties the backing array and sets len to 0, and from then
\* until a push every push_reuse returns None.
C8_DropClearsPhysically ==
    sinceDrop =>
        /\ Vec_len(vec) = 0
        /\ len = 0
        /\ (op.name = "push_reuse" => ret = None)
        /\ (op.name = "clear_drop" => pc = "live")
C8_Witness ==
    /\ pc = "live"
    /\ sinceDrop
    /\ op.name = "push_reuse"
    /\ prev = "clear_drop"
    /\ vec.cap >= 2

\* C9: into_vec returns exactly the live elements in order, as many as len at
\* the call, and drops every reservoir element.
C9_IntoVecLive ==
    [][ (pc = "live" /\ op'.name = "into_vec") =>
            /\ pc' = "consumed"
            /\ Len(out'.buf) = len
            /\ out'.buf = as_slice
            /\ dropped' = SubSeq(vec.buf, len + 1, Vec_len(vec)) ]_vars
C9_Witness ==
    /\ pc = "consumed"
    /\ op.name = "into_vec"
    /\ prev = "clear_reuse"
    /\ Len(out.buf) = 0
    /\ Len(dropped) >= 1

\* C10: an array converted to the container has every element live, and
\* converted straight back with into_vec it is the same array again.
C10_RoundTrip ==
    [][ /\ (pc = "live" /\ op.name = "from") =>
               (vec = op.arg /\ len = Vec_len(op.arg))
        /\ (pc = "live" /\ op.name = "from" /\ op'.name = "into_vec") =>
               (out' = op.arg /\ dropped' = << >>) ]_vars
C10_Witness ==
    /\ pc = "consumed"
    /\ op.name = "into_vec"
    /\ prev = "from"
    /\ Len(out.buf) >= 2
    /\ out.buf[1] # out.buf[2]

\* C11: every clear_reuse and every clear_drop leaves len = 0 without a panic,
\* and a second consecutive call of the same clearing operation changes
\* neither the backing array nor the length and drops nothing.
C11_ClearIdempotent ==
    [][ /\ (pc = "live" /\ op'.name \in {"clear_reuse", "clear_drop"}) =>
               (pc' = "live" /\ len' = 0)
        /\ (pc = "live" /\ op'.name \in {"clear_reuse", "clear_drop"}
                /\ op.name = op'.name) =>
               (vec' = vec /\ len' = len /\ dropped' = << >> /\ out' = out) ]_vars
C11_Witness ==
    /\ pc = "live"
    /\ op.name = "clear_reuse"
    /\ prev = "clear_reuse"
    /\ len = 0
    /\ Vec_len(vec) >= 2

\* C12: the counter never wraps: push at len = USIZE_MAX panics and leaves len
\* and the backing array as they were, and neither push nor push_reuse ever
\* makes len smaller.
C12_NoWrap ==
    [][ /\ (pc = "live" /\ op'.name = "push" /\ len = USIZE_MAX) =>
               (pc' = "panicked" /\ len' = len /\ vec' = vec)
        /\ (pc = "live" /\ op'.name \in {"push", "push_reuse"}) =>
               (len' >= len /\ len' <= Vec_len(vec')) ]_vars
C12_Witness ==
    /\ pc = "panicked"
    /\ op.name = "push"
    /\ len = USIZE_MAX
    /\ Vec_len(vec) = USIZE_MAX

\* the live elements, read off the backing array index by index
LiveElements == [k \in 1..len |-> Index(vec, k - 1)]

\* C13: iteration by reference, by mutable reference and by value each yield
\* exactly the elements at indices 0..len-1 in index order, never a reservoir
\* element.
C13_IterationLive ==
    [][ /\ pc = "live" =>
               (into_iter_ref = LiveElements /\ into_iter_mut = LiveElements)
        /\ (pc = "live" /\ op'.name = "into_iter") =>
               (pc' = "consumed" /\ out'.buf = LiveElements) ]_vars
C13_Witness ==
    /\ pc = "consumed"
    /\ op.name = "into_iter"
    /\ Len(out.buf) >= 1
    /\ Len(dropped) >= 1
    /\ dropped[1] # out.buf[1]

\* C14: below counter overflow push(value) takes one of two paths.  If the new
\* length fits the backing array, the slot at index new length - 1 is
\* overwritten, its stale value is the one element dropped, and the physical
\* length, the capacity and every other slot stay.  Otherwise exactly one
\* element is appended physically and nothing is dropped.
C14_PushPath ==
    [][ (pc = "live" /\ op'.name = "push" /\ len < USIZE_MAX) =>
            IF len + 1 <= Vec_len(vec)
            THEN /\ Vec_len(vec') = Vec_len(vec)
                 /\ vec'.cap = vec.cap
                 /\ vec'.buf = [vec.buf EXCEPT ![len + 1] = op'.arg]
                 /\ dropped' = << vec.buf[len + 1] >>
            ELSE /\ Vec_len(vec') = Vec_len(vec) + 1
                 /\ vec'.buf = Append(vec.buf, op'.arg)
                 /\ vec'.cap >= Vec_len(vec')
                 /\ dropped' = << >> ]_vars
C14_Witness ==
    /\ pc = "live"
    /\ op.name = "push"
    /\ len >= 1
    /\ Vec_len(vec) >= len + 2
    /\ Len(dropped) = 1
    /\ Index(vec, len) # op.arg

\* C15: in the test's reuse loop only iteration 0 appends; in every later
\* iteration push_reuse returns slot 0 still holding what the iteration before
\* left there; len is 1 after each push / push_reuse and 0 after each
\* clear_reuse; and from the first push on the backing array holds one element.
C15_ReuseLoop ==
    /\ pc = "live"
    /\ op.name = "push" => (iter = 0 /\ len = 1)
    /\ op.name = "push_reuse" =>
           IF iter = 0
           THEN ret = None /\ len = 0
           ELSE ret = 0 /\ len = 1 /\ Index(vec, 0) = Filled
    /\ op.name = "write_reused" => (iter > 0 /\ len = 1)
    /\ op.name = "slice_write" => (len = 1 /\ as_slice = << Filled >>)
    /\ op.name = "clear_reuse" => (len = 0 /\ iter > 0)
    /\ (iter > 0 \/ op.name \notin {"new", "push_reuse"}) => Vec_len(vec) = 1
C15_Witness ==
    /\ pc = "live"
    /\ iter >= 2
    /\ op.name = "push_reuse"
    /\ ret = 0
    /\ Index(vec, 0) = Filled

\* number of reservoir slots
Reservoir == Vec_len(vec) - len

\* C16: a container fresh from with_capacity(n) has len 0, an empty view and
\* no physical element whatever n is, and push_reuse on it returns None.  A
\* slot is physically present only through push or the conversion from an
\* array, every constructor starts without a reservoir, the reservoir grows
\* only by clear_reuse, and a slot push_reuse returns has been written.
C16_CapacityIsNoReservoir ==
    [][ /\ (pc = "live" /\ op.name = "with_capacity") =>
               /\ len = 0
               /\ as_slice = << >>
               /\ Vec_len(vec) = 0
               /\ vec.cap >= op.arg
        /\ (pc = "live" /\ op.name = "with_capacity" /\ op'.name = "push_reuse") =>
               (pc' = "live" /\ ret' = None /\ len' = 0)
        /\ (pc = "live" /\ op.name \in {"new", "with_capacity", "from"}) =>
               Reservoir = 0
        /\ (pc = "live" /\ pc' = "live" /\ Reservoir' > Reservoir) =>
               op'.name = "clear_reuse"
        /\ (pc = "live" /\ pc' = "live" /\ Vec_len(vec') > Vec_len(vec)) =>
               op'.name = "push"
        /\ (pc = "live" /\ op'.name = "push_reuse" /\ ret' # None) =>
               written[ret'] # None ]_vars
C16_Witness ==
    /\ pc = "live"
    /\ op.name = "push_reuse"
    /\ prev = "with_capacity"
    /\ vec.cap >= 2
    /\ Vec_len(vec) = 0
    /\ ret = None

\* C17: while the container lives the physical length equals the largest
\* value len has had since construction (the array's element count for a
\* converted array) or since the last clear_drop, and only clear_drop and
\* into_vec (also when called by the by-value iteration) make it smaller.
C17_HighWaterMark ==
    [][ /\ pc = "live" => Vec_len(vec) = hwm
        /\ (pc = "live" /\ Vec_len(vec') < Vec_len(vec)) =>
               op'.name \in {"clear_drop", "into_vec", "into_iter"}
        /\ (pc = "live" /\ op'.name \in {"push", "push_reuse", "clear_reuse",
                                         "slice_write", "write_reused"}) =>
               Vec_len(vec') >= Vec_len(vec) ]_vars
C17_Witness ==
    /\ pc = "live"
    /\ op.name = "push"
    /\ hwm >= 2
    /\ len >= 1
    /\ len < hwm
    /\ Vec_len(vec) = hwm

\* C18: the range ..len of as_slice / as_mut_slice is always inside the
\* backing array; whenever push or push_reuse index the backing array the
\* index len - 1 is inside it and len is not 0; and a panic comes only from
\* push called with len at the counter maximum.
C18_NoAccessFails ==
    [][ /\ pc = "live" =>
               (as_slice # OutOfRange /\ as_mut_slice # OutOfRange)
        /\ (pc = "live" /\ op'.name = "push_reuse" /\ len < Vec_len(vec)) =>
               (len' >= 1 /\ InBounds(vec, len' - 1))
        /\ (pc = "live" /\ op'.name = "push" /\ len < USIZE_MAX
                /\ len + 1 <= Vec_len(vec)) =>
               (len' >= 1 /\ InBounds(vec, len' - 1))
        /\ (pc = "live" /\ pc' = "panicked") =>
               (op'.name = "push" /\ len = USIZE_MAX /\ len' = len) ]_vars
C18_Witness ==
    /\ pc = "live"
    /\ op.name = "push_reuse"
    /\ ret >= 1
    /\ ret = Vec_len(vec) - 1
    /\ Len(as_mut_slice) = Vec_len(vec)

\* C19: under push, clear_reuse, clear_drop and into_vec alone, the view equals
\* an ordinary growable array given push, clear, clear and nothing for the same
\* calls, after every call, and into_vec returns that array.
C19_RefinesGrowableArray ==
    /\ pc = "live" => as_slice = shadow
    /\ pc = "consumed" => out.buf = shadow
C19_Witness ==
    /\ pc = "live"
    /\ op.name = "push"
    /\ prev = "clear_reuse"
    /\ Vec_len(vec) >= 2
    /\ len = 1
    /\ shadow = << op.arg >>
    /\ Index(vec, 1) # op.arg
====
